---- MODULE Spec2Model ----
(***************************************************************************)
(* A model of the LuLu dictionary word-note tool:                          *)
(*   - the batch orchestrator, src/src/word_processor.py                   *)
(*     (WordNoteProcessor) with the remote list client,                    *)
(*     src/src/luludict/client.py (LuLuDictClient);                        *)
(*   - the task ledger of the web front door, src/app.py, with             *)
(*     BatchProcessor of src/src/ai_providers/__init__.py.                 *)
(* Python dicts are insertion ordered: a dict is modelled as a sequence of *)
(* <<key, value>> pairs with distinct keys.  Calls to the outside world    *)
(* (the dictionary service, the generation provider) answer                *)
(* nondeterministically, and every call issued is appended to `log`.       *)
(***************************************************************************)
EXTENDS Integers, Sequences, FiniteSets, TLC

\* ------------------------------------------------------------------ bounds
\* longest remote word list of a process_word_notes run
MaxRemote == 3
\* longest remote word list of a bare retrieve_word_list call
MaxRetrieve == 4
\* longest caller-supplied list of process_specific_words
MaxSpecific == 2
\* largest max_words cap tried
MaxCap == 2
\* the page size (words_per_page) the model runs with
PageSize == 2

\* the words of the remote list, in the order the service lists them
AllWords == <<"alpha", "beta", "gamma", "delta", "epsilon", "zeta", "eta">>
\* the words a caller may pass to process_specific_words
CallerWords == {"alpha", "beta"}
\* star ratings tried for remote entries (WordEntry.star is 0..5)
Stars == {0, 5}

VARIABLES
    \* ---- one run of the orchestrator
    runKind,        \* "batch" | "individual" : process_word_notes(processing_mode)
                    \* "specific" : process_specific_words, "retrieve" : retrieve_word_list
    remote,         \* the remote word list: a sequence of [word, star] entries
    max_words,      \* the max_words argument; 0 stands for None (both are falsy)
    pc,             \* where the run is
    page,           \* get_all_words: page
    words_data,     \* get_all_words: words_data
    words,          \* the word list being processed
    idx,            \* loop index (1-based position in words / in the notes dict)
    word_notes,     \* dict word -> note, as a sequence of <<word, note>>
    upload_results, \* dict word -> result, as a sequence of <<word, result>>
    successful_uploads, failed_uploads, existing_notes, \* individual mode lists
    summary,        \* the value returned
    outcome,        \* "running" | "returned" | "raised"
    log             \* every outside call and every sleep, in order

ovars == <<runKind, remote, max_words, pc, page, words_data, words, idx, word_notes,
           upload_results, successful_uploads, failed_uploads, existing_notes,
           summary, outcome, log>>

VARIABLES
    \* ---- the task ledger of src/app.py
    task_queue,     \* queue.Queue(): the tasks put and not yet taken
    task_status,    \* dict task id -> status; Absent where the id has no entry
    task_results,   \* dict task id -> result; NoResult where the id has no entry
    clock,          \* int(time.time())
    hpc,            \* per request handler: "idle" | "put" | "done" | "rejected"
    htask,          \* per request handler: the task it created
    wpc,            \* the worker: "idle" | "run" | "mark"
    wtask,          \* the task the worker took
    widx,           \* BatchProcessor.process_words: position in words
    wresults,       \* BatchProcessor.process_words: results
    poll            \* the poller: the request in progress and its response

lvars == <<task_queue, task_status, task_results, clock, hpc, htask, wpc, wtask, widx,
           wresults, poll>>

VARIABLES
    \* ---- a direct call of a provider method or of the note filter
    pclass,         \* the class whose method is called
    reply,          \* what the backend answers to the request of the call
    ppc,            \* "idle" | "start" | "generated" | "validated"
    gen_log,        \* the generate_word_note calls made: [word, style, out]
    ret,            \* what the call returned or raised
    words_without_notes,  \* the list exclude_words_with_note builds
    filter_calls    \* the calls of exclude_words_with_note that returned:
                    \* [words, returned]

cvars == <<pclass, reply, ppc, gen_log, ret, words_without_notes, filter_calls>>

VARIABLES
    \* ---- star ratings: a run of rate_word.main, or a call of update_word_star
    cet4_words,     \* rate_word.main: cet4_words, the loaded CET4 list
    cet6_words,     \* rate_word.main: cet6_words, the loaded CET6 list
    dry_run,        \* args.dry_run
    rate_max_pages, \* args.max_pages: <<>> is None, <<n>> the number n
    rpc,            \* where the run or the call is
    rpage,          \* iter_word_entries: page
    entries,        \* iter_word_entries: entries of the fetched page not yet yielded
    tally,          \* the counters of main (total_words ... failures)
    star_calls,     \* the calls of determine_target_star made so far, with results
    rate_log,       \* the requests and sleeps of the run, in order
    inspected,      \* how many entries the generator has yielded in this run
    exit_code,      \* what main returned: <<>> while it runs, <<n>> afterwards
    first_run,      \* what an earlier run of rate_word ended with
    star_call       \* a direct call of update_word_star: arguments and result

rvars == <<cet4_words, cet6_words, dry_run, rate_max_pages, rpc, rpage, entries, tally,
           star_calls, rate_log, inspected, exit_code, first_run, star_call>>

vars == <<ovars, lvars, cvars, rvars>>

\* ------------------------------------------------------------ text helpers
\* a string is the sequence of its characters (or of larger pieces of text)
Chars == {" ", "a"}
IsSpace(c) == c = " "

\* str.strip(): the text without its leading and trailing whitespace
RECURSIVE LStrip(_)
LStrip(s) == IF s # <<>> /\ IsSpace(Head(s)) THEN LStrip(Tail(s)) ELSE s
RECURSIVE RStrip(_)
RStrip(s) ==
    IF s # <<>> /\ IsSpace(s[Len(s)]) THEN RStrip(SubSeq(s, 1, Len(s) - 1)) ELSE s
Strip(s) == RStrip(LStrip(s))

\* ------------------------------------------------------------ dict helpers
SeqsUpTo(S, n) == UNION {[1..k -> S] : k \in 0..n}
DictKeys(d) == [i \in 1..Len(d) |-> d[i][1]]
DictHas(d, k) == \E i \in 1..Len(d) : d[i][1] = k
DictGet(d, k) == d[CHOOSE i \in 1..Len(d) : d[i][1] = k][2]
\* a dict that puts a new key first
DictSetFront(d, k, v) ==
    IF DictHas(d, k)
    THEN [i \in 1..Len(d) |-> IF d[i][1] = k THEN <<k, v>> ELSE d[i]]
    ELSE <<<<k, v>>>> \o d

\* d[k] = v : an existing key keeps its position, a new key goes last
DictSet(d, k, v) ==
    IF DictHas(d, k)
    THEN [i \in 1..Len(d) |-> IF d[i][1] = k THEN <<k, v>> ELSE d[i]]
    ELSE Append(d, <<k, v>>)

\* ------------------------------------------------------- remote list client
\* truthiness of an Optional[int]: None (modelled 0) and 0 are falsy
Truthy(n) == n # 0

\* the page the service answers for page number p (pages are 0-based here, as
\* get_all_words starts at page 0)
PageData(p) ==
    LET lo == p * PageSize + 1
        hi == IF (p + 1) * PageSize < Len(remote) THEN (p + 1) * PageSize ELSE Len(remote)
    IN  IF lo > Len(remote) THEN <<>> ELSE SubSeq(remote, lo, hi)

\* insert e into a star-descending sequence after every entry of star >= e.star
RECURSIVE InsertByStar(_, _)
InsertByStar(s, e) ==
    IF s = <<>> THEN <<e>>
    ELSE IF Head(s).star >= e.star THEN <<Head(s)>> \o InsertByStar(Tail(s), e)
    ELSE <<e>> \o s

\* sorted(words_data, key=star, reverse=True): stable, star non-increasing
RECURSIVE SortByStarFrom(_, _)
SortByStarFrom(acc, s) ==
    IF s = <<>> THEN acc ELSE SortByStarFrom(InsertByStar(acc, Head(s)), Tail(s))
\* a get_all_words that leaves words_data in fetch order
SortByStarOff(s) == s
SortByStar(s) == SortByStarFrom(<<>>, s)

\* all_words = [word.get("word") for word in words_data]
AllWordsOf(wd) == LET s == SortByStar(wd) IN [i \in 1..Len(s) |-> s[i].word]

\* the loop guard of get_all_words: if max_pages and page > max_pages: break
PageLimitHit(max_pages, p) == Truthy(max_pages) /\ p > max_pages

\* ------------------------------------------------------ retrieve_word_list
\* max_pages = (max_words + words_per_page - 1) // words_per_page; None (0) if no cap
MaxPages(m) == IF Truthy(m) THEN (m + PageSize - 1) \div PageSize ELSE 0

\* a retrieve_word_list that returns the fetched pages without cutting them
TruncateOff(ws, m) == ws

\* return words[:max_words] if len(words) > max_words else words
Truncate(ws, m) ==
    IF Truthy(m) THEN (IF Len(ws) > m THEN SubSeq(ws, 1, m) ELSE ws) ELSE ws

\* what retrieve_word_list returns once get_all_words has collected wd
RetrievedWords(wd) == Truncate(AllWordsOf(wd), max_words)


\* ------------------------------------------------- outside answers, results
\* the note the provider returns for a word when the call succeeds
NoteOf(w) == "NOTE:" \o w
\* notes[word] = f"Error: {str(e)}" ; the generator raises a bare Exception
ErrorText == "Error: "
\* note.startswith("Error:")
StartsWithError(note) == note = ErrorText

\* add_word_note's answers: "saved" the service confirms ('成功保存笔记'),
\* "other" a 200 answer with another message, "reqerr" a RequestException,
\* "keyerr" a 200 answer whose JSON has no "message" (KeyError, not caught there)
AddAnswers == {"saved", "other", "reqerr", "keyerr"}
\* what add_word_note returns: a success dict, an error dict, or None (no return
\* statement is reached when the message differs)
AddResult(ans) ==
    IF ans = "saved" THEN "success" ELSE IF ans = "reqerr" THEN "error" ELSE "None"

\* update_word_note's answers: the JSON of the response, or a RequestException
\* "json_ok" a dict without "error", "json_err" a dict with "error",
\* "json_null" a JSON value that is no container, "reqerr" a RequestException
UpdateAnswers == {"json_ok", "json_err", "json_null", "reqerr"}

\* get_word_note asks the store for the entry of a word
\* how a get_word_note request can go wrong: a RequestException (the client
\* returns False), or an answer whose "data" is no dict
LookupFaults == {"none", "reqerr", "bad_data"}

\* what get_word_note(word) yields: the entry with a note ("has_note") or with
\* an empty one ("empty_note"), an answer without the entry ("no_data"), an
\* answer whose "data" is no dict ("bad_data"), or False ("reqerr")
NoteAnswer(word, fault) ==
    IF fault # "none" THEN fault
    ELSE IF \E i \in 1..Len(remote) : remote[i].word = word
    THEN LET e == remote[CHOOSE i \in 1..Len(remote) : remote[i].word = word] IN
         IF Strip(e.note) # <<>> THEN "has_note" ELSE "empty_note"
    ELSE "no_data"
\* if self.luludict_client.get_word_note(word, language): a dict is truthy
CheckTruthy(ans) == ans # "reqerr"

\* "error" not in result, for the results of add_word_note; None has no `in`
NoErrorIn(result) == result # "error"
IsContainer(result) == result # "None"

\* a generation loop that goes on after a failure
NeverStops(kind) == FALSE

\* generate_notes_for_words(..., stop_on_error): _process_words_in_batch leaves
\* the default True, process_specific_words passes False
StopOnError(kind) == kind = "batch"

\* `if words is None`: a test an empty list does not pass
NoWordsIsNone(ws) == FALSE

\* if not words
NoWords(ws) == ws = <<>>

\* ------------------------------------------------ the task ledger: values
\* request handlers that submit (one submission each)
MaxSubmits == 2
\* the last second of the clock
MaxClock == 1
\* longest word list of a batch submission
MaxBatchWords == 2

Handlers == 1..MaxSubmits
TaskTypes == {"single_word", "batch_process"}
Providers == {"gemini", "openai"}
LedgerWords == {"x", "y"}

\* the word lists of a batch submission: not empty (batch_generate rejects an
\* empty list); word names are interchangeable, so the first word is "x"
BatchLists == {ws \in SeqsUpTo(LedgerWords, MaxBatchWords) : ws # <<>> /\ ws[1] = "x"}

\* what keys.json and the environment hold for a provider: nothing, an empty
\* string, or a key
KeyValues == {"<None>", "", "k"}
\* api_key = keys.get(provider) or os.getenv(f"{provider.upper()}_API_KEY")
ApiKey(file_key, env_key) == IF file_key \in {"<None>", ""} THEN env_key ELSE file_key

\* a handler that lets every request through
KeyNeverMissing(api_key) == FALSE

\* if not api_key
KeyMissing(api_key) == api_key \in {"<None>", ""}

\* task_id = f"single_{int(time.time())}" / f"batch_{int(time.time())}"
TaskId(type, t) == <<IF type = "single_word" THEN "single" ELSE "batch", t>>
TaskIds == {TaskId(ty, t) : ty \in TaskTypes, t \in 0..MaxClock}

\* a key with no entry in task_status / task_results
Absent == "<absent>"
NoResult == [tag |-> "None"]
\* `by` is the identity of the dict object: the submission that built it
NoTask ==
    [id |-> <<"none", 0>>, type |-> "none", words |-> <<>>, provider |-> "none", by |-> 0,
     api_key |-> "<None>"]

\* progress_callback(f"Processing {i+1}/{total_words}: {word}")
ProgressMessage(i, n, word) ==
    "Processing " \o ToString(i) \o "/" \o ToString(n) \o ": " \o word

\* the results a task can end with
ErrorResult(msg) == [tag |-> "error", error |-> msg]
SingleResult(word, note) == [tag |-> "success", word |-> word, note |-> note]
BatchResult(results) == [tag |-> "success", results |-> results]

\* the provider's answers: a placeholder provider always raises NotImplementedError
GenAnswers(provider) == IF provider = "openai" THEN {"notimpl"} ELSE {"ok", "raise"}
GenErrorText(ans) ==
    IF ans = "notimpl" THEN "OpenAI provider not yet implemented" ELSE "generation failed"

\* process_single_word and process_batch_words catch every exception and return
\* an error dict: no exception reaches background_worker's except clause
ProcessRaises(task) == FALSE

\* task_status.get(task_id, 'not_found')
StatusOf(id) == IF task_status[id] = Absent THEN "not_found" ELSE task_status[id]

LedgerInit ==
    /\ task_queue = <<>>
    /\ task_status = [id \in TaskIds |-> Absent]
    /\ task_results = [id \in TaskIds |-> NoResult]
    /\ clock = 0
    /\ hpc = [h \in Handlers |-> "idle"]
    /\ htask = [h \in Handlers |-> NoTask]
    /\ wpc = "idle"
    /\ wtask = NoTask
    /\ widx = 1
    /\ wresults = <<>>
    /\ poll = [pc |-> "idle", id |-> <<"none", 0>>, status |-> "none", result |-> NoResult]

\* ------------------------------------------------------------------- Init
\* no star-rating run and no update_word_star call is in progress
NoTally ==
    [total_words |-> 0, updates_applied |-> 0, cet4_promotions |-> 0,
     cet6_assignments |-> 0, demoted_to_four |-> 0, skipped |-> 0, failures |-> 0]
NoRun == [kind |-> "none"]
NoStarCall == [kind |-> "none"]
RateIdle ==
    /\ cet4_words = {}
    /\ cet6_words = {}
    /\ dry_run = FALSE
    /\ rate_max_pages = <<>>
    /\ rpc = "idle"
    /\ rpage = 0
    /\ entries = <<>>
    /\ tally = NoTally
    /\ star_calls = <<>>
    /\ rate_log = <<>>
    /\ inspected = 0
    /\ exit_code = <<>>
    /\ first_run = NoRun
    /\ star_call = NoStarCall

\* no direct call is in progress
NoReply == [kind |-> "none", content |-> <<>>]
NoRet == [kind |-> "none"]
CallsIdle ==
    /\ pclass = "none"
    /\ reply = NoReply
    /\ ppc = "idle"
    /\ gen_log = <<>>
    /\ ret = NoRet
    /\ words_without_notes = <<>>
    /\ filter_calls = <<>>

\* remote lists of at most n entries: entry i is word AllWords[i] with a star of S
RemoteLists(n, S) ==
    UNION {{[i \in 1..k |-> [word |-> AllWords[i], star |-> st[i]]] : st \in [1..k -> S]}
           : k \in 0..n}

\* the notes the store holds when a run starts: none, or a text
StoredNotes == {<<>>, <<"a">>}

\* remote lists of at most n entries: entry i is word AllWords[i], with star 0
\* and a stored note
NotedRemotes(n) ==
    UNION {{[i \in 1..k |-> [word |-> AllWords[i], star |-> 0, note |-> nt[i]]]
            : nt \in [1..k -> StoredNotes]} : k \in 0..n}

InitCommon ==
    /\ page = 0
    /\ words_data = <<>>
    /\ idx = 1
    /\ word_notes = <<>>
    /\ upload_results = <<>>
    /\ successful_uploads = <<>>
    /\ failed_uploads = <<>>
    /\ existing_notes = <<>>
    /\ summary = [kind |-> "none"]
    /\ outcome = "running"
    /\ log = <<>>

\* a call of process_word_notes (batch or individual) or process_specific_words
Init ==
    /\ InitCommon
    /\ LedgerInit
    /\ RateIdle
    /\ CallsIdle
    /\ runKind \in {"batch", "individual", "specific"}
    /\ IF runKind = "specific"
       THEN /\ remote = <<>>
            /\ max_words = 0
            /\ words \in SeqsUpTo(CallerWords, MaxSpecific)
            /\ pc = "generate"
       ELSE /\ remote \in NotedRemotes(MaxRemote)
            /\ max_words \in 0..MaxCap
            /\ words = <<>>
            /\ pc = "fetch"

\* a bare call of retrieve_word_list
InitRetrieve ==
    /\ InitCommon
    /\ LedgerInit
    /\ RateIdle
    /\ CallsIdle
    /\ runKind = "retrieve"
    /\ remote \in RemoteLists(MaxRetrieve, Stars)
    /\ max_words \in 0..MaxCap
    /\ words = <<>>
    /\ pc = "fetch"

\* ------------------------------------------------------- word-list retrieval
\* process_word_notes once retrieve_word_list has returned ws, or the return of
\* a bare retrieve_word_list
Dispatch(ws) ==
    /\ words' = ws
    /\ IF runKind = "retrieve"
       THEN /\ pc' = "done"
            /\ outcome' = "returned"
            /\ summary' = [kind |-> "words"]
       ELSE IF NoWords(ws)
       THEN /\ pc' = "done"
            /\ outcome' = "returned"
            /\ summary' = [kind |-> "error", error |-> "No words retrieved"]
       ELSE /\ pc' = IF runKind = "individual" THEN "individual" ELSE "generate"
            /\ UNCHANGED <<outcome, summary>>

\* one pass of the loop of get_all_words that fetches a page
FetchPage ==
    /\ pc = "fetch"
    /\ ~PageLimitHit(MaxPages(max_words), page)
    /\ \E ans \in {"data", "error"} :
         LET data == IF ans = "data" THEN PageData(page) ELSE <<>>
             got  == IF ans = "error" THEN "error"
                     ELSE IF data = <<>> THEN "empty" ELSE "data"
         IN  IF got = "data"
             THEN /\ words_data' = words_data \o data
                  /\ page' = page + 1
                  /\ log' = log \o << <<"fetch", page, got>>, <<"sleep", "page">> >>
                  /\ UNCHANGED <<pc, words, summary, outcome>>
             ELSE /\ log' = Append(log, <<"fetch", page, got>>)
                  /\ Dispatch(RetrievedWords(words_data))
                  /\ UNCHANGED <<words_data, page>>
    /\ UNCHANGED <<lvars, cvars, rvars>>
    /\ UNCHANGED <<runKind, remote, max_words, idx, word_notes, upload_results,
                   successful_uploads, failed_uploads, existing_notes>>

\* the loop of get_all_words ends at the page limit, without a fetch
PageLimitReached ==
    /\ pc = "fetch"
    /\ PageLimitHit(MaxPages(max_words), page)
    /\ Dispatch(RetrievedWords(words_data))
    /\ UNCHANGED <<lvars, cvars, rvars>>
    /\ UNCHANGED <<runKind, remote, max_words, page, words_data, idx, word_notes,
                   upload_results, successful_uploads, failed_uploads, existing_notes, log>>

NextRetrieve == FetchPage \/ PageLimitReached
SpecRetrieve == InitRetrieve /\ [][NextRetrieve]_vars


\* --------------------------------------------- generate_notes_for_words
\* one pass of the loop of generate_notes_for_words: the provider returns a note
\* or raises
GenerateNote ==
    /\ pc = "generate"
    /\ idx <= Len(words)
    /\ LET word == words[idx]
           last == idx = Len(words)
       IN \E ans \in {"ok", "raise"} :
            IF ans = "ok"
            THEN /\ word_notes' = DictSet(word_notes, word, NoteOf(word))
                 /\ log' = IF last THEN Append(log, <<"gen", word, ans>>)
                           ELSE log \o << <<"gen", word, ans>>, <<"sleep", "gen">> >>
                 /\ idx' = idx + 1
                 /\ pc' = pc
            ELSE /\ log' = Append(log, <<"gen", word, ans>>)
                 /\ IF StopOnError(runKind)
                    THEN /\ pc' = "gen_break"
                         /\ UNCHANGED <<word_notes, idx>>
                    ELSE /\ word_notes' = DictSet(word_notes, word, ErrorText)
                         /\ idx' = idx + 1
                         /\ pc' = pc
    /\ UNCHANGED <<lvars, cvars, rvars>>
    /\ UNCHANGED <<runKind, remote, max_words, page, words_data, words, upload_results,
                   successful_uploads, failed_uploads, existing_notes, summary, outcome>>

\* the end of generate_notes_for_words (lines 300-303): the count printed there
\* reads the loop variable i, which is unbound when the loop never ran
GenerateDone ==
    /\ \/ pc = "generate" /\ idx > Len(words)
       \/ pc = "gen_break"
    /\ IF Len(words) = 0
       THEN /\ pc' = "done"
            /\ outcome' = "raised"
       ELSE /\ pc' = "upload"
            /\ outcome' = outcome
    /\ idx' = 1
    /\ UNCHANGED <<lvars, cvars, rvars>>
    /\ UNCHANGED <<runKind, remote, max_words, page, words_data, words, word_notes,
                   upload_results, successful_uploads, failed_uploads, existing_notes,
                   summary, log>>

\* ------------------------------- upload_notes_to_luludict / batch_add_notes
\* one pass of the loop of batch_add_notes over word_notes.items(); an exception
\* add_word_note does not catch leaves batch_add_notes and upload_notes_to_luludict
\* returns {}
UploadNote ==
    /\ pc = "upload"
    /\ idx <= Len(word_notes)
    /\ LET word == word_notes[idx][1]
           note == word_notes[idx][2]
           last == idx = Len(word_notes)
       IN \E ans \in AddAnswers :
            IF ans = "keyerr"
            THEN /\ log' = Append(log, <<"upload", word, note>>)
                 /\ upload_results' = <<>>
                 /\ pc' = "uploaded"
                 /\ idx' = idx
            ELSE /\ upload_results' = DictSet(upload_results, word, AddResult(ans))
                 /\ log' = IF last THEN Append(log, <<"upload", word, note>>)
                           ELSE log \o << <<"upload", word, note>>, <<"sleep", "upload">> >>
                 /\ idx' = idx + 1
                 /\ pc' = IF last THEN "uploaded" ELSE pc
    /\ UNCHANGED <<lvars, cvars, rvars>>
    /\ UNCHANGED <<runKind, remote, max_words, page, words_data, words, word_notes,
                   successful_uploads, failed_uploads, existing_notes, summary, outcome>>

\* sum(1 for result in upload_results.values() if "error" not in result)
RECURSIVE CountNoError(_)
CountNoError(d) ==
    IF d = <<>> THEN 0
    ELSE (IF NoErrorIn(Head(d)[2]) THEN 1 ELSE 0) + CountNoError(Tail(d))

\* the summary of _process_words_in_batch (lines 168-179)
BatchSummary ==
    [kind |-> "batch",
     total_words_processed |-> Len(words),
     notes_generated |-> Len(word_notes),
     successful_uploads |-> CountNoError(upload_results),
     failed_uploads |-> Len(upload_results) - CountNoError(upload_results),
     upload_results |-> upload_results,
     word_notes |-> word_notes]

\* the value process_specific_words returns (lines 353-356)
SpecificSummary ==
    [kind |-> "specific", word_notes |-> word_notes, upload_results |-> upload_results]

\* `"error" not in result` raises TypeError for a result that is None
SummaryRaises(results) == \E i \in 1..Len(results) : ~IsContainer(results[i][2])

\* after upload_notes_to_luludict: the summary of _process_words_in_batch, or
\* the return of process_specific_words
UploadDone ==
    /\ \/ pc = "uploaded"
       \/ pc = "upload" /\ Len(word_notes) = 0
    /\ pc' = "done"
    /\ IF runKind = "batch"
       THEN IF SummaryRaises(upload_results)
            THEN /\ outcome' = "raised"
                 /\ summary' = summary
            ELSE /\ outcome' = "returned"
                 /\ summary' = BatchSummary
       ELSE /\ outcome' = "returned"
            /\ summary' = SpecificSummary
    /\ UNCHANGED <<lvars, cvars, rvars>>
    /\ UNCHANGED <<runKind, remote, max_words, page, words_data, words, idx, word_notes,
                   upload_results, successful_uploads, failed_uploads, existing_notes, log>>

\* an except clause that only prints
ExceptDrops(failed, word) == failed

\* except Exception as e: failed_uploads.append(word) (lines 141-143)
ExceptRecords(failed, word) == Append(failed, word)

\* --------------------------------------------- _process_words_individually
\* one pass of the loop: get_word_note, then process_specific_word (generate and
\* update_word_note), all inside the loop's try
IndividualWord ==
    /\ pc = "individual"
    /\ idx <= Len(words)
    /\ LET word == words[idx]
           last == idx = Len(words)
           nap(l) == IF last THEN l ELSE Append(l, <<"sleep", "gen">>)
       IN \E fault \in LookupFaults, gen \in {"ok", "raise"}, upd \in UpdateAnswers :
            LET chk == NoteAnswer(word, fault) IN
            IF CheckTruthy(chk)
            THEN /\ existing_notes' = Append(existing_notes, word)
                 /\ log' = Append(log, <<"check", word, chk>>)
                 /\ UNCHANGED <<word_notes, successful_uploads, failed_uploads>>
            ELSE IF gen = "raise"
            THEN \* process_specific_word catches and returns the error pair
                 /\ word_notes' = DictSet(word_notes, word, ErrorText)
                 /\ failed_uploads' = Append(failed_uploads, word)
                 /\ log' = nap(log \o << <<"check", word, chk>>, <<"gen", word, gen>> >>)
                 /\ UNCHANGED <<successful_uploads, existing_notes>>
            ELSE /\ word_notes' = DictSet(word_notes, word, NoteOf(word))
                 /\ UNCHANGED existing_notes
                 /\ IF upd = "json_ok"
                    THEN /\ successful_uploads' = Append(successful_uploads, word)
                         /\ failed_uploads' = failed_uploads
                         /\ log' = nap(log \o << <<"check", word, chk>>, <<"gen", word, gen>>,
                                                 <<"upload", word, NoteOf(word)>> >>)
                    ELSE IF upd = "json_null"
                    THEN \* `in` on a non-container raises; the loop's except records it
                         /\ failed_uploads' = ExceptRecords(failed_uploads, word)
                         /\ successful_uploads' = successful_uploads
                         /\ log' = log \o << <<"check", word, chk>>, <<"gen", word, gen>>,
                                             <<"upload", word, NoteOf(word)>> >>
                    ELSE /\ failed_uploads' = Append(failed_uploads, word)
                         /\ successful_uploads' = successful_uploads
                         /\ log' = nap(log \o << <<"check", word, chk>>, <<"gen", word, gen>>,
                                                 <<"upload", word, NoteOf(word)>> >>)
    /\ idx' = idx + 1
    /\ UNCHANGED <<lvars, cvars, rvars>>
    /\ UNCHANGED <<runKind, remote, max_words, pc, page, words_data, words, upload_results,
                   summary, outcome>>

\* the summary of _process_words_individually (lines 143-153)
IndividualSummary ==
    [kind |-> "individual",
     total_words_processed |-> Len(words),
     notes_generated |-> Len(word_notes),
     successful_uploads |-> successful_uploads,
     failed_uploads |-> failed_uploads,
     existing_notes |-> existing_notes,
     word_notes |-> word_notes]

IndividualDone ==
    /\ pc = "individual"
    /\ idx > Len(words)
    /\ pc' = "done"
    /\ outcome' = "returned"
    /\ summary' = IndividualSummary
    /\ UNCHANGED <<lvars, cvars, rvars>>
    /\ UNCHANGED <<runKind, remote, max_words, page, words_data, words, idx, word_notes,
                   upload_results, successful_uploads, failed_uploads, existing_notes, log>>

Next ==
    \/ FetchPage
    \/ PageLimitReached
    \/ GenerateNote
    \/ GenerateDone
    \/ UploadNote
    \/ UploadDone
    \/ IndividualWord
    \/ IndividualDone

Spec == Init /\ [][Next]_vars


\* ====================================================================
\* Properties of the orchestrator
\* ====================================================================
IsFetch(e) == e[1] = "fetch"
IsGen(e) == e[1] = "gen"
IsUpload(e) == e[1] = "upload"
GenCalls == SelectSeq(log, IsGen)
UploadCalls == SelectSeq(log, IsUpload)
FetchCalls == SelectSeq(log, IsFetch)
GenerationOver == pc \in {"upload", "uploaded", "done"}
CeilDiv(m, p) == (m + p - 1) \div p

\* C1: in batch mode a generation failure for one word does not abort the
\* batch: once the generation phase is over, generation has been attempted for
\* every word of the list, and the run reaches the upload phase.
C1_BatchAttemptsEveryWord ==
    /\ (runKind = "batch" /\ GenerationOver /\ summary.kind # "error")
          => \A i \in 1..Len(words) :
                \E j \in 1..Len(GenCalls) : GenCalls[j][2] = words[i]
    /\ (runKind = "batch" /\ pc = "gen_break") => ENABLED GenerateDone

\* C2: a batch run produces exactly one per-word result for each candidate
\* word: after the generation phase of the batch orchestrator the number of
\* results equals the number of candidate words.
C2_OneResultPerCandidate ==
    (runKind = "batch" /\ GenerationOver /\ summary.kind # "error")
        => Len(word_notes) = Len(words)

\* C3: in a generate-then-upload run (batch mode, process_specific_words) an
\* upload is issued only for a word whose generation succeeded, and no error
\* text is uploaded as a note.
C3_UploadsOnlySuccessfulNotes ==
    runKind \in {"batch", "specific"}
        => \A j \in 1..Len(log) :
              IsUpload(log[j])
                 => /\ ~StartsWithError(log[j][3])
                    /\ \E k \in 1..(j - 1) : log[k] = <<"gen", log[j][2], "ok">>

\* the provider stub of the scenario: it returns NOTE:alpha for alpha and raises
\* for beta; the store saves what it is sent
StubScenario ==
    /\ runKind = "batch"
    /\ words = <<"alpha", "beta">>
    /\ pc = "done"
    /\ \A j \in 1..Len(GenCalls) :
          GenCalls[j][3] = (IF GenCalls[j][2] = "alpha" THEN "ok" ELSE "raise")
    /\ \A j \in 1..Len(upload_results) : upload_results[j][2] = "success"
    /\ Len(upload_results) = Len(UploadCalls)

\* C4: for [alpha, beta] with a provider that returns NOTE:alpha for alpha and
\* raises for beta, batch mode returns a result with alpha a success carrying
\* NOTE:alpha and beta recorded as a failure, and exactly one upload is
\* attempted, for alpha.
C4_AlphaBetaScenario ==
    StubScenario
        => /\ outcome = "returned"
           /\ summary.kind = "batch"
           /\ DictHas(summary.word_notes, "alpha")
           /\ DictGet(summary.word_notes, "alpha") = "NOTE:alpha"
           /\ DictHas(summary.word_notes, "beta")
           /\ StartsWithError(DictGet(summary.word_notes, "beta"))
           /\ UploadCalls = << <<"upload", "alpha", "NOTE:alpha">> >>

\* C5: process_word_notes (batch or individual mode) never raises, whatever the
\* provider or the remote store answers for an individual word.
C5_NeverRaises ==
    runKind \in {"batch", "individual"} => outcome # "raised"

\* the first page fetch failed or returned no entries
InitialListUnavailable ==
    /\ runKind \in {"batch", "individual"}
    /\ Len(log) >= 1
    /\ IsFetch(log[1])
    /\ log[1][3] \in {"error", "empty"}

\* C6: when the initial word list cannot be retrieved, process_word_notes
\* returns an error-flagged summary instead of raising, and performs no
\* generation call and no upload.
C6_NoListGivesErrorSummary ==
    InitialListUnavailable
        => /\ pc = "done"
           /\ outcome = "returned"
           /\ summary.kind = "error"
           /\ GenCalls = <<>>
           /\ UploadCalls = <<>>

C6_Witness ==
    /\ InitialListUnavailable
    /\ log[1][3] = "error"
    /\ Len(remote) > 0
    /\ summary.kind = "error"

\* every page fetched so far was full
EveryPageFull ==
    /\ \A j \in 1..Len(FetchCalls) : FetchCalls[j][3] = "data"
    /\ Len(words_data) = PageSize * Len(FetchCalls)

\* C7: retrieval with a cap max_words = M and page size P issues exactly
\* ceil(M / P) page fetches when every page is full.
C7_FetchCountIsCeil ==
    (pc = "done" /\ max_words >= 1 /\ EveryPageFull)
        => Len(FetchCalls) = CeilDiv(max_words, PageSize)

Tick ==
    /\ clock < MaxClock
    /\ clock' = clock + 1
    /\ UNCHANGED <<task_queue, task_status, task_results, hpc, htask, wpc, wtask, widx,
                   wresults, poll>>
    /\ UNCHANGED <<ovars, cvars, rvars>>

\* a queue that hands out the newest task first
QueuePutFront(q, task) == <<task>> \o q

\* task_queue = queue.Queue(); task_queue.put(task): first in, first out
QueuePut(q, task) == Append(q, task)

\* handlers are interchangeable: they are numbered in the order they submit
CanSubmit(h) == hpc[h] = "idle" /\ \A g \in Handlers : g < h => hpc[g] # "idle"

\* the end of a handler that accepted the request (the task is on the queue) or
\* rejected it: return jsonify({'success': False, 'message': ...})
Enqueue(h, task) ==
    IF KeyMissing(task.api_key)
    THEN /\ hpc' = [hpc EXCEPT ![h] = "rejected"]
         /\ UNCHANGED <<task_queue, htask>>
    ELSE /\ task_queue' = QueuePut(task_queue, task)
         /\ htask' = [htask EXCEPT ![h] = task]
         /\ hpc' = [hpc EXCEPT ![h] = "put"]

\* generate_word_note up to task_queue.put(task) (lines 227-256)
SubmitSingle(h) ==
    /\ CanSubmit(h)
    /\ \E provider \in Providers, word \in {"x"}, file_key, env_key \in KeyValues :
         Enqueue(h, [id |-> TaskId("single_word", clock), type |-> "single_word",
                     words |-> <<word>>, provider |-> provider, by |-> h,
                     api_key |-> ApiKey(file_key, env_key)])
    /\ UNCHANGED <<task_status, task_results, clock, wpc, wtask, widx, wresults, poll>>
    /\ UNCHANGED <<ovars, cvars, rvars>>

\* batch_generate up to task_queue.put(task) (lines 267-304)
SubmitBatch(h) ==
    /\ CanSubmit(h)
    /\ \E provider \in Providers, ws \in BatchLists, file_key, env_key \in KeyValues :
         Enqueue(h, [id |-> TaskId("batch_process", clock), type |-> "batch_process",
                     words |-> ws, provider |-> provider, by |-> h,
                     api_key |-> ApiKey(file_key, env_key)])
    /\ UNCHANGED <<task_status, task_results, clock, wpc, wtask, widx, wresults, poll>>
    /\ UNCHANGED <<ovars, cvars, rvars>>

\* the handler's next statement: task_status[task_id] = 'queued' (lines 257, 305),
\* and the response with the task id
SubmitMark(h) ==
    /\ hpc[h] = "put"
    /\ task_status' = [task_status EXCEPT ![htask[h].id] = "queued"]
    /\ hpc' = [hpc EXCEPT ![h] = "done"]
    /\ UNCHANGED <<task_queue, task_results, clock, htask, wpc, wtask, widx, wresults, poll>>
    /\ UNCHANGED <<ovars, cvars, rvars>>

\* background_worker: task_queue.get() and task_status[task_id] = 'processing'
WorkerGet ==
    /\ wpc = "idle"
    /\ task_queue # <<>>
    /\ wtask' = Head(task_queue)
    /\ task_queue' = Tail(task_queue)
    /\ task_status' = [task_status EXCEPT ![Head(task_queue).id] = "processing"]
    /\ wpc' = "run"
    /\ widx' = 1
    /\ wresults' = <<>>
    /\ UNCHANGED <<task_results, clock, hpc, htask, poll>>
    /\ UNCHANGED <<ovars, cvars, rvars>>

\* a worker that marks the task without storing what the task function returned
StoreNothing(result) ==
    /\ task_results' = task_results
    /\ wpc' = "mark"

\* background_worker stores what the task function returned, or the error of
\* the exception it raised (lines 82, 88)
StoreResult(result) ==
    /\ task_results' = [task_results EXCEPT ![wtask.id] =
                           IF ProcessRaises(wtask) THEN ErrorResult("raised") ELSE result]
    /\ wpc' = "mark"

\* process_single_word, and task_results[task_id] = result
WorkerSingle ==
    /\ wpc = "run"
    /\ wtask.type = "single_word"
    /\ \E ans \in GenAnswers(wtask.provider) :
         StoreResult(IF ans = "ok"
                     THEN SingleResult(wtask.words[1], NoteOf(wtask.words[1]))
                     ELSE ErrorResult(GenErrorText(ans)))
    /\ UNCHANGED <<task_queue, task_status, clock, hpc, htask, wtask, widx, wresults, poll>>
    /\ UNCHANGED <<ovars, cvars, rvars>>

\* one pass of the loop of BatchProcessor.process_words, called by
\* process_batch_words: the progress callback overwrites the task's status,
\* then the provider is called
WorkerBatchWord ==
    /\ wpc = "run"
    /\ wtask.type = "batch_process"
    /\ widx <= Len(wtask.words)
    /\ LET word == wtask.words[widx] IN
       /\ task_status' = [task_status EXCEPT ![wtask.id] =
                             ProgressMessage(widx, Len(wtask.words), word)]
       /\ \E ans \in GenAnswers(wtask.provider) :
            wresults' = DictSet(wresults, word,
                                IF ans = "ok" THEN [success |-> TRUE, text |-> NoteOf(word)]
                                ELSE [success |-> FALSE, text |-> GenErrorText(ans)])
    /\ widx' = widx + 1
    /\ UNCHANGED <<task_queue, task_results, clock, hpc, htask, wpc, wtask, poll>>
    /\ UNCHANGED <<ovars, cvars, rvars>>

\* the end of process_batch_words, and task_results[task_id] = result
WorkerBatchDone ==
    /\ wpc = "run"
    /\ wtask.type = "batch_process"
    /\ widx > Len(wtask.words)
    /\ StoreResult(BatchResult(wresults))
    /\ UNCHANGED <<task_queue, task_status, clock, hpc, htask, wtask, widx, wresults, poll>>
    /\ UNCHANGED <<ovars, cvars, rvars>>

\* a worker thread that ends when a task ended in an error
WorkerStopsOnError(task) ==
    IF task_results[task.id].tag = "error" THEN "stopped" ELSE "idle"

\* background_worker: `while True` takes the worker back to task_queue.get()
\* after every task, whatever its result (lines 63-65, 91)
WorkerLoop(task) == "idle"

\* background_worker: task_status[task_id] = 'completed' (line 83), or 'failed'
\* in the except clause (line 89)
WorkerMark ==
    /\ wpc = "mark"
    /\ task_status' = [task_status EXCEPT ![wtask.id] =
                          IF ProcessRaises(wtask) THEN "failed" ELSE "completed"]
    /\ wpc' = WorkerLoop(wtask)
    /\ UNCHANGED <<task_queue, task_results, clock, hpc, htask, wtask, widx, wresults, poll>>
    /\ UNCHANGED <<ovars, cvars, rvars>>

\* the ids a client holds: those a submission has answered with
AnsweredIds == {htask[h].id : h \in {g \in Handlers : hpc[g] = "done"}}

\* get_task_status: status = task_status.get(task_id, 'not_found')
PollStatus ==
    /\ poll.pc = "idle"
    /\ \E id \in AnsweredIds :
         poll' = [pc |-> "status", id |-> id, status |-> StatusOf(id), result |-> NoResult]
    /\ UNCHANGED <<task_queue, task_status, task_results, clock, hpc, htask, wpc, wtask,
                   widx, wresults>>
    /\ UNCHANGED <<ovars, cvars, rvars>>

\* get_task_status: result = task_results.get(task_id), and the response
PollResult ==
    /\ poll.pc = "status"
    /\ poll' = [poll EXCEPT !.pc = "idle", !.result = task_results[poll.id]]
    /\ UNCHANGED <<task_queue, task_status, task_results, clock, hpc, htask, wpc, wtask,
                   widx, wresults>>
    /\ UNCHANGED <<ovars, cvars, rvars>>

\* no orchestrator run is in progress in the ledger's specification
OrchestratorIdle ==
    /\ InitCommon
    /\ runKind = "none"
    /\ remote = <<>>
    /\ max_words = 0
    /\ words = <<>>
    /\ pc = "done"

InitLedger == LedgerInit /\ OrchestratorIdle /\ CallsIdle /\ RateIdle

NextLedger ==
    \/ Tick
    \/ \E h \in Handlers : SubmitSingle(h)
    \/ \E h \in Handlers : SubmitBatch(h)
    \/ \E h \in Handlers : SubmitMark(h)
    \/ WorkerGet
    \/ WorkerSingle
    \/ WorkerBatchWord
    \/ WorkerBatchDone
    \/ WorkerMark
    \/ PollStatus
    \/ PollResult

SpecLedger == InitLedger /\ [][NextLedger]_vars


\* ====================================================================
\* Properties of the task ledger
\* ====================================================================
TaskStatuses == {"queued", "processing", "completed", "failed"}
Terminal == {"completed", "failed"}

\* C9: a task's status only moves forward along queued -> processing ->
\* (completed or failed): once the worker has claimed or finished a task its
\* status never goes back to queued, and a terminal status never changes.
C9_StatusMovesForward ==
    [][\A id \in TaskIds :
          /\ task_status[id] \in {"processing"} \cup Terminal => task_status'[id] # "queued"
          /\ task_status[id] \in Terminal => task_status'[id] = task_status[id]]_vars

\* C10: the status stored for a submitted task, and so the status a poll
\* returns for it, is one of queued, processing, completed, failed.
C10_StatusInEnum ==
    /\ \A id \in TaskIds : task_status[id] # Absent => task_status[id] \in TaskStatuses
    /\ (poll.pc = "idle" /\ poll.status \notin {"none", "not_found"})
          => poll.status \in TaskStatuses

\* --- the task a handler submitted, as the worker sees it
Range(s) == {s[i] : i \in 1..Len(s)}
Distinct(ws) == \A i, j \in 1..Len(ws) : i # j => ws[i] # ws[j]

\* handler h accepted its request and has put the task on the queue
Accepted(h) == hpc[h] \in {"put", "done"}

\* handler h has put its task, and no other submission carries the same id
SoleOwner(h) ==
    /\ Accepted(h)
    /\ \A g \in Handlers \ {h} : Accepted(g) => htask[g].id # htask[h].id

\* the worker has taken the task of handler h and is through with it
Finished(h) ==
    /\ Accepted(h)
    /\ htask[h] \notin Range(task_queue)
    /\ ~(wpc # "idle" /\ wtask = htask[h])

\* the worker is at the task of handler h
Executing(h) == Accepted(h) /\ wpc # "idle" /\ wtask = htask[h]

\* every generation call made so far for the task of handler h returned
AllReturnedSoFar(h) ==
    Executing(h) => \A k \in 1..Len(wresults) : wresults[k][2].success

\* the stored result of a batch task holds n successful per-word entries
AllReturned(id) ==
    /\ task_results[id].tag = "success"
    /\ \A k \in 1..Len(task_results[id].results) : task_results[id].results[k][2].success

\* a poll (get_task_status) reads the status of the batch task of handler h
PollsBatchOf(h) ==
    /\ poll.pc = "idle" /\ poll'.pc = "status"
    /\ hpc[h] = "done"
    /\ poll'.id = htask[h].id
    /\ htask[h].type = "batch_process"
    /\ Distinct(htask[h].words)
    /\ SoleOwner(h)

\* C11: for a batch task of n distinct words whose generation calls all
\* return, a poll made before the worker has finished the task returns queued
\* or processing, and a poll made after it returns completed with a result of
\* n per-word entries.
C11_PollBeforeAndAfter ==
    [][\A h \in Handlers :
          /\ (PollsBatchOf(h) /\ ~Finished(h) /\ AllReturnedSoFar(h))
                => poll'.status \in {"queued", "processing"}
          /\ (PollsBatchOf(h) /\ Finished(h) /\ AllReturned(htask[h].id))
                => /\ poll'.status = "completed"
                   /\ Len(task_results[htask[h].id].results) = Len(htask[h].words)]_vars

\* the work of the task in the worker's hands failed: what is stored for it is
\* an error in place of a result
WorkFailed == wpc = "mark" /\ task_results[wtask.id].tag = "error"

\* C12: when the work of a task fails (provider creation or the generation
\* call raises), the worker sets the task's status to failed with the error
\* stored in place of a result, and never to completed.
C12_FailedWorkIsFailed ==
    [][(WorkFailed /\ wpc' = "idle")
          => /\ task_status'[wtask.id] = "failed"
             /\ task_results'[wtask.id].tag = "error"]_vars

\* the submissions made so far
Submitted == {h \in Handlers : Accepted(h)}

\* the response of a poll carries the result of the batch task of handler h
AnswersFor(h) ==
    (poll.result.tag = "success" /\ htask[h].type = "batch_process")
        => Range(DictKeys(poll.result.results)) = Range(htask[h].words)

\* C13: every submitted task has an id distinct from the id of every other
\* submitted task, and a poll with the id a submission returned yields the
\* result of that submission's task, never that of another task.
C13_TaskIdsDistinct ==
    /\ \A g, h \in Submitted : g # h => htask[g].id # htask[h].id
    /\ \A h \in Handlers :
          (hpc[h] = "done" /\ poll.pc = "idle" /\ poll.id = htask[h].id) => AnswersFor(h)

\* the worker has taken the task of handler h from the queue
Started(h) == Accepted(h) /\ htask[h] \notin Range(task_queue)

\* C14: tasks are executed one at a time and in submission order: when the
\* worker starts a task, every task it started before is finished, and a task
\* enqueued earlier (by a lower-numbered submission) is started before a task
\* enqueued later.
C14_OneAtATimeFifo ==
    [][\A h \in Handlers :
          /\ (~Started(h) /\ Started(h)')
                => /\ wpc = "idle"
                   /\ \A g \in Handlers \ {h} : Started(g) => Finished(g)
          /\ Started(h)' => \A g \in Handlers : (g < h /\ Accepted(g)') => Started(g)']_vars

\* both submissions were queued together, the first is finished and the worker
\* is at the second
C14_Witness ==
    /\ Finished(1)
    /\ Executing(2)
    /\ hpc[2] = "put"
    /\ task_status[htask[1].id] = "completed"

\* a step of a request handler: a submission (hpc) or a poll (poll) moves on
HandlerStep == hpc' # hpc \/ poll' # poll
\* a step of the worker thread
WorkerStep == wpc' # wpc \/ widx' # widx

\* C15: the task status map and the task result map are written only by the
\* worker thread; no step of a request handler (submission or poll) changes
\* either map.
C15_OnlyWorkerWrites ==
    [][(task_status' # task_status \/ task_results' # task_results)
          => (WorkerStep /\ ~HandlerStep)]_vars

\* the tasks that exist: on the queue, or in the worker's hands
LiveTasks == Range(task_queue) \cup (IF wpc # "idle" THEN {wtask} ELSE {})

\* C16: a submission without an API key for the selected provider is rejected
\* before any task is enqueued: it leaves no task and no ledger entry, and no
\* task that the worker runs (and calls the provider for) is without a key.
C16_NoKeyNoTask ==
    /\ \A h \in Handlers :
          hpc[h] = "rejected"
              => /\ htask[h] = NoTask
                 /\ \A t \in LiveTasks : t.by # h
    /\ \A t \in LiveTasks : t.api_key \notin {"<None>", ""}
    /\ (\A h \in Handlers : hpc[h] \in {"idle", "rejected"})
          => /\ task_queue = <<>>
             /\ \A id \in TaskIds : task_status[id] = Absent /\ task_results[id] = NoResult

\* one submission was rejected, the next one was accepted and is completed
C16_Witness ==
    /\ hpc[1] = "rejected"
    /\ hpc[2] = "done"
    /\ task_status[htask[2].id] = "completed"

\* the texts that say a provider is not implemented: the one the handler of
\* NotImplementedError builds (app.py:108, 159), and the placeholder's own
NotImplementedTexts ==
    {"Provider openai not yet implemented", "OpenAI provider not yet implemented"}

\* C17: a single-word or batch task for a provider that is not implemented
\* ends with a task-level error result saying that the provider is not
\* implemented; a task of an implemented provider never ends with that result.
C17_NotImplementedIsTaskLevel ==
    wpc = "mark"
        => LET result == task_results[wtask.id] IN
           IF wtask.provider = "openai"
           THEN result.tag = "error" /\ result.error \in NotImplementedTexts
           ELSE result.tag = "error" => result.error \notin NotImplementedTexts

\* ====================================================================
\* A direct call of a provider method (src/src/ai_providers/__init__.py,
\* src/src/gemini/gemini.py, src/src/gemini/tools_backup.py)
\* ====================================================================
\* longest response content, in characters
MaxContent == 3

\* the contents a backend can answer with
Contents == SeqsUpTo(Chars, MaxContent)

\* the classes with a generate_word_note: the four providers of the factory,
\* and GeminiWordNoteGenerator of tools_backup.py
ProviderClasses == {"gemini", "deepseek", "openai", "claude", "gemini_backup"}
\* the classes without a backend
Placeholders == {"openai", "claude"}

\* what the backend does with the request: an answer with content, a timeout,
\* a connection error, a status other than 200, a body without the expected
\* fields
FailureKinds == {"timeout", "connerr", "non200", "malformed"}
Replies ==
    {[kind |-> "ok", content |-> c] : c \in Contents}
        \cup {[kind |-> k, content |-> <<>>] : k \in FailureKinds}

Return(text) == [kind |-> "return", value |-> text]
Raise(e) == [kind |-> "raise", error |-> e]
ReturnNone == [kind |-> "return_none"]
ReturnBool(b) == [kind |-> "return_bool", value |-> b]

\* f"Error generating note for '{word}': {str(e)}"
ErrorNotePrefix == "Error generating note for '"
ErrorNote(word, e) == <<ErrorNotePrefix, word, "': ", e>>

\* DeepSeekProvider.generate_word_note
DeepSeekGenerate(r) ==
    IF r.kind = "ok" THEN Return(Strip(r.content))
    ELSE IF r.kind = "non200" THEN Raise("DeepSeek API error")
    ELSE IF r.kind = "malformed" THEN Raise("KeyError")
    ELSE Raise("DeepSeek API request failed")

\* GeminiWordNoteGenerator.generate_word_note of gemini.py, which
\* GeminiProvider.generate_word_note calls
GeminiGenerate(r) ==
    IF r.kind = "ok" THEN Return(Strip(r.content)) ELSE Raise("Exception")

\* GeminiWordNoteGenerator.generate_word_note of tools_backup.py
GeminiBackupGenerate(word, r) ==
    IF r.kind = "ok" THEN Return(Strip(r.content)) ELSE Return(ErrorNote(word, r.kind))

\* generate_word_note(word, style) of class c when the backend answers r
Generate(c, word, r) ==
    IF c \in Placeholders THEN Raise("NotImplementedError")
    ELSE IF c = "deepseek" THEN DeepSeekGenerate(r)
    ELSE IF c = "gemini" THEN GeminiGenerate(r)
    ELSE GeminiBackupGenerate(word, r)

\* a probe that takes every returned string for a valid key
ValidAnyString(out) == out.kind = "return"

\* bool(test_result and len(test_result) > 0)
ValidResult(out) == out.kind = "return" /\ Len(out.value) > 0

InitProvider ==
    /\ LedgerInit
    /\ RateIdle
    /\ OrchestratorIdle
    /\ pclass \in ProviderClasses
    /\ reply \in Replies
    /\ ppc = "start"
    /\ gen_log = <<>>
    /\ ret = NoRet
    /\ words_without_notes = <<>>
    /\ filter_calls = <<>>

\* a call of generate_word_note(word, style)
CallGenerate ==
    /\ ppc = "start"
    /\ \E word \in LedgerWords, style \in {"chinese", "english"} :
         LET out == Generate(pclass, word, reply) IN
         /\ gen_log' = Append(gen_log, [word |-> word, style |-> style, out |-> out])
         /\ ret' = out
    /\ ppc' = "generated"
    /\ UNCHANGED <<pclass, reply, words_without_notes, filter_calls>>
    /\ UNCHANGED <<ovars, lvars, rvars>>

\* a call of validate_api_key(); the generation call it makes answers as the
\* class does, or is replaced by one that returns None (test_deepseek.py:160)
CallValidate ==
    /\ ppc = "start"
    /\ pclass # "gemini_backup"
    /\ IF pclass \in Placeholders
       THEN /\ ret' = ReturnBool(FALSE)
            /\ UNCHANGED gen_log
       ELSE \E stubbed \in BOOLEAN :
              LET out == IF stubbed THEN ReturnNone ELSE Generate(pclass, "test", reply) IN
              /\ gen_log' = Append(gen_log, [word |-> "test", style |-> "english", out |-> out])
              /\ ret' = ReturnBool(ValidResult(out))
    /\ ppc' = "validated"
    /\ UNCHANGED <<pclass, reply, words_without_notes, filter_calls>>
    /\ UNCHANGED <<ovars, lvars, rvars>>

NextProvider == CallGenerate \/ CallValidate

SpecProvider == InitProvider /\ [][NextProvider]_vars

\* --- properties of the provider calls
\* text is content without some whitespace at its two ends, and has none left
IsStrippedOf(text, content) ==
    /\ text = <<>> \/ (~IsSpace(text[1]) /\ ~IsSpace(text[Len(text)]))
    /\ \E i \in 0..Len(content) :
         /\ i + Len(text) <= Len(content)
         /\ SubSeq(content, i + 1, i + Len(text)) = text
         /\ \A k \in 1..Len(content) : (k <= i \/ k > i + Len(text)) => IsSpace(content[k])

IsErrorMessage(text) == text # <<>> /\ text[1] = ErrorNotePrefix

\* C18: generate_word_note of every class signals a failure (timeout,
\* connection error, non-200 status, malformed body) by raising; it returns a
\* string only when the backend answered, and that string is the content
\* without its surrounding whitespace, never an error message.
C18_FailureRaises ==
    ppc = "generated"
        => /\ reply.kind \in FailureKinds => ret.kind = "raise"
           /\ ret.kind = "return"
                 => /\ reply.kind = "ok"
                    /\ ~IsErrorMessage(ret.value)
                    /\ IsStrippedOf(ret.value, reply.content)

\* C19: validate_api_key of a provider with a backend (Gemini, DeepSeek) makes
\* exactly one generation call, for word 'test' and style 'english', and
\* returns true exactly when that call returned a non-empty string; when the
\* call raised, or returned an empty string or None, it returns false.
C19_ValidateProbesOnce ==
    (ppc = "validated" /\ pclass \notin Placeholders)
        => /\ Len(gen_log) = 1
           /\ gen_log[1].word = "test" /\ gen_log[1].style = "english"
           /\ ret.kind = "return_bool"
           /\ ret.value = (gen_log[1].out.kind = "return" /\ gen_log[1].out.value # <<>>)

\* the backend answered with whitespace around the text, and the key is valid
C19_Witness ==
    /\ ppc = "validated"
    /\ pclass = "deepseek"
    /\ reply.kind = "ok" /\ reply.content = <<" ", "a", " ">>
    /\ gen_log[1].out = Return(<<"a">>)
    /\ ret = ReturnBool(TRUE)

\* ====================================================================
\* A direct call of exclude_words_with_note (src/src/word_processor.py)
\* ====================================================================
\* longest candidate list
MaxCandidates == 2
\* most entries of the remote list
MaxNoted == 2
\* the latest add_time, in days
MaxTime == 2
\* the freshness cutoff, in days
Cutoff == 1

\* a remote entry's note: none, blanks only, or a text
NoteTexts == {<<>>, <<" ">>, <<"a">>}
\* a remote entry's add_time: missing (<<>>) or <<t>>
AddTimes == {<<>>} \cup {<<t>> : t \in 0..MaxTime}

\* remote lists whose entry i is word AllWords[i], with a note and an add_time
NotedLists ==
    UNION {{[i \in 1..k |-> [word |-> AllWords[i], star |-> 0,
                             note |-> f[i][1], add_time |-> f[i][2]]]
            : f \in [1..k -> NoteTexts \X AddTimes]} : k \in 0..MaxNoted}

CandidateWords == {AllWords[i] : i \in 1..MaxCandidates}

\* word_details and "data" in word_details and
\* word_details["data"].get("note", "").strip()
SkipsWord(ans) == ans = "has_note"

\* a filter that lists a kept word twice
KeepWordTwice(out, word) == out \o <<word, word>>

\* words_without_notes.append(word)
KeepWord(out, word) == Append(out, word)

\* calls of exclude_words_with_note in one session
MaxFilterCalls == 2

InitFilter ==
    /\ InitCommon
    /\ LedgerInit
    /\ RateIdle
    /\ CallsIdle
    /\ runKind = "filter"
    /\ remote \in NotedLists
    /\ max_words = 0
    /\ words \in SeqsUpTo(CandidateWords, MaxCandidates)
    /\ pc = "filter"

\* one pass of the loop of exclude_words_with_note
FilterCheck ==
    /\ pc = "filter"
    /\ idx <= Len(words)
    /\ \E fault \in LookupFaults :
         LET word == words[idx]
             ans == NoteAnswer(word, fault)
         IN /\ words_without_notes' =
                   IF SkipsWord(ans) THEN words_without_notes
                   ELSE KeepWord(words_without_notes, word)
            /\ log' = log \o <<<<"check", word, ans>>>>
                          \o (IF ans = "bad_data" THEN <<>> ELSE <<<<"sleep", "check">>>>)
    /\ idx' = idx + 1
    /\ UNCHANGED <<runKind, remote, max_words, pc, page, words_data, words, word_notes,
                   upload_results, successful_uploads, failed_uploads, existing_notes,
                   summary, outcome>>
    /\ UNCHANGED <<pclass, reply, ppc, gen_log, ret, filter_calls>>
    /\ UNCHANGED <<lvars, rvars>>

\* return words_without_notes
FilterReturn ==
    /\ pc = "filter"
    /\ idx > Len(words)
    /\ pc' = "done"
    /\ outcome' = "returned"
    /\ filter_calls' = Append(filter_calls,
                              [words |-> words, returned |-> words_without_notes])
    /\ UNCHANGED <<runKind, remote, max_words, page, words_data, words, idx, word_notes,
                   upload_results, successful_uploads, failed_uploads, existing_notes,
                   summary, log>>
    /\ UNCHANGED <<pclass, reply, ppc, gen_log, ret, words_without_notes>>
    /\ UNCHANGED <<lvars, rvars>>

\* the next call of exclude_words_with_note, on the same remote state: with the
\* same candidate list, or with the list the last call returned
FilterAgain ==
    /\ runKind = "filter"
    /\ pc = "done"
    /\ Len(filter_calls) < MaxFilterCalls
    /\ words' \in {words, words_without_notes}
    /\ words_without_notes' = <<>>
    /\ idx' = 1
    /\ pc' = "filter"
    /\ outcome' = "running"
    /\ UNCHANGED <<runKind, remote, max_words, page, words_data, word_notes,
                   upload_results, successful_uploads, failed_uploads, existing_notes,
                   summary, log>>
    /\ UNCHANGED <<pclass, reply, ppc, gen_log, ret, filter_calls>>
    /\ UNCHANGED <<lvars, rvars>>

NextFilter == FilterCheck \/ FilterReturn \/ FilterAgain

SpecFilter == InitFilter /\ [][NextFilter]_vars

\* --- properties of the filter
\* the remote words-with-notes collection has an entry for the word whose
\* add_time is strictly after the cutoff
RecentNote(word) ==
    \E i \in 1..Len(remote) :
        /\ remote[i].word = word
        /\ Strip(remote[i].note) # <<>>
        /\ remote[i].add_time # <<>>
        /\ remote[i].add_time[1] > Cutoff

\* C20: the note-existence filter removes a candidate word exactly when the
\* remote words-with-notes collection has an entry for it whose add_time is
\* strictly after the cutoff; an entry at or before the cutoff, or one without
\* add_time, never excludes a word.
C20_ExcludesOnlyRecent ==
    (runKind = "filter" /\ pc = "done")
        => \A i \in 1..Len(words) :
              (words[i] \notin Range(words_without_notes)) <=> RecentNote(words[i])

\* every lookup of a word was answered the same way in all the calls
SameAnswers ==
    \A j, k \in 1..Len(log) :
        (log[j][1] = "check" /\ log[k][1] = "check" /\ log[j][2] = log[k][2])
            => log[j][3] = log[k][3]

HasNote(word) ==
    \E i \in 1..Len(remote) : remote[i].word = word /\ Strip(remote[i].note) # <<>>

\* C22: in a run of process_word_notes (skip_existing_notes=True; batch mode or
\* individual mode) no generation call and no upload is made for a word that
\* already has a note in the remote store.
C22_NoWorkForNotedWords ==
    runKind \in {"batch", "individual"}
        => \A j \in 1..Len(log) :
              (IsGen(log[j]) \/ IsUpload(log[j])) => ~HasNote(log[j][2])

\* a lookup that the store answered (no transport failure, a well-formed body)
IsAnsweredCheck(e) == e[1] = "check" /\ e[3] \in {"has_note", "empty_note", "no_data"}

\* C23: in individual mode a word whose lookup was answered is skipped (listed
\* in existing_notes, with no generation call) exactly when the store holds a
\* non-empty note for it; a word whose entry carries an empty note is
\* generated.
C23_SkipsOnlyNonEmptyNotes ==
    runKind = "individual"
        => \A j \in 1..Len(log) :
              IsAnsweredCheck(log[j])
                 => /\ (log[j][2] \in Range(existing_notes)) <=> HasNote(log[j][2])
                    /\ ~HasNote(log[j][2])
                          => (j < Len(log) /\ IsGen(log[j + 1]) /\ log[j + 1][2] = log[j][2])

FailedWords == Range(failed_uploads)

\* C25: in individual mode a failure while checking (the lookup request
\* fails), generating (the provider raises) or uploading one word is recorded
\* as a failed entry for that word, and every later word of the list is still
\* processed: at the end each word has been looked up and is listed as
\* existing, successful or failed.
C25_FailureRecordedLoopGoesOn ==
    runKind = "individual"
        => /\ \A j \in 1..Len(log) :
                 (log[j] = <<"check", log[j][2], "reqerr">> \/ log[j] = <<"gen", log[j][2], "raise">>)
                    => log[j][2] \in FailedWords
           /\ (pc = "done" /\ summary.kind = "individual")
                 => \A i \in 1..Len(words) :
                       /\ \E j \in 1..Len(log) : log[j][1] = "check" /\ log[j][2] = words[i]
                       /\ words[i] \in Range(existing_notes) \cup Range(successful_uploads)
                                          \cup FailedWords

\* the upload phase of the run is over
UploadOver == pc \in {"uploaded", "done"}

\* C26: in the upload phase (batch mode, process_specific_words) a failed
\* upload does not block the others: once the phase is over an upload has been
\* attempted for every generated note, and the upload results hold an outcome,
\* success or error, for each of them.
C26_EveryNoteUploaded ==
    (runKind \in {"batch", "specific"} /\ UploadOver)
        => \A k \in 1..Len(word_notes) :
              LET word == word_notes[k][1] IN
              /\ \E j \in 1..Len(UploadCalls) : UploadCalls[j][2] = word
              /\ DictHas(upload_results, word)
              /\ DictGet(upload_results, word) \in {"success", "error"}

SleepGen == <<"sleep", "gen">>

\* C27: within a generate-then-upload run, every generation call that is
\* followed by another generation call has the rate-limit delay right after it,
\* whether it returned or raised, and no delay follows the last call.
C27_DelayBetweenGenerations ==
    runKind \in {"batch", "specific"}
        => \A j \in 1..Len(log) :
              IsGen(log[j])
                 => IF \E k \in (j + 1)..Len(log) : IsGen(log[k])
                    THEN log[j + 1] = SleepGen
                    ELSE GenerationOver => (j = Len(log) \/ log[j + 1] # SleepGen)

\* the place of the first generation call for a word among the generation calls
GenIndex(word) == CHOOSE i \in 1..Len(GenCalls) : GenCalls[i][2] = word

\* C28: in batch mode every generation call precedes the first upload,
\* generation calls follow the order of the word list, and uploads are issued
\* in the order of the generation calls of their words.
C28_GenerateThenUploadInOrder ==
    runKind = "batch"
        => /\ \A j, k \in 1..Len(log) : (IsUpload(log[j]) /\ IsGen(log[k])) => k < j
           /\ \A i \in 1..Len(GenCalls) : GenCalls[i][2] = words[i]
           /\ \A a, b \in 1..Len(UploadCalls) :
                 a < b => GenIndex(UploadCalls[a][2]) < GenIndex(UploadCalls[b][2])

\* a batch run that generated and uploaded three notes
C28_Witness ==
    /\ runKind = "batch"
    /\ pc = "done"
    /\ Len(GenCalls) = 3
    /\ Len(UploadCalls) = 3

\* where get_all_words fetched the word w: its position in words_data
FetchPos(w) == CHOOSE i \in 1..Len(words_data) : words_data[i].word = w
\* the star of the fetched entry of w
StarOfWord(w) == words_data[FetchPos(w)].star

\* C29: the words a retrieval returns are words of fetched entries, ordered by
\* star non-increasing, entries of equal star in fetch order, no entry twice;
\* without a cap (get_all_words as it is) there is one word per fetched entry
C29_SortedByStarOnePerEntry ==
    (runKind = "retrieve" /\ pc = "done")
        => /\ \A i \in 1..Len(words) :
                \E j \in 1..Len(words_data) : words_data[j].word = words[i]
           /\ \A i, j \in 1..Len(words) :
                i < j => /\ StarOfWord(words[i]) >= StarOfWord(words[j])
                         /\ StarOfWord(words[i]) = StarOfWord(words[j])
                                => FetchPos(words[i]) < FetchPos(words[j])
                         /\ words[i] # words[j]
           /\ max_words = 0
                => /\ Len(words) = Len(words_data)
                   /\ \A j \in 1..Len(words_data) :
                        \E i \in 1..Len(words) : words[i] = words_data[j].word
C29_Witness ==
    /\ runKind = "retrieve" /\ pc = "done" /\ max_words = 0
    /\ words = <<"beta", "delta", "alpha", "gamma">>
    /\ Len(words_data) = 4

\* the generation calls of the run that returned a note
GenSucceeded == {i \in 1..Len(log) : IsGen(log[i]) /\ log[i][3] = "ok"}

\* C30: the notes_generated of a returned batch or individual summary is the
\* number of words whose generation succeeded in the run
C30_NotesGeneratedCountsSuccesses ==
    (pc = "done" /\ outcome = "returned" /\ summary.kind \in {"batch", "individual"})
        => summary.notes_generated = Cardinality(GenSucceeded)

\* ====================================================================
\* Properties of the task ledger: polls against the worker
\* ====================================================================
\* a poll has answered (both reads of get_task_status are done) for task id
PollAnswered == poll.pc = "idle" /\ poll.id # <<"none", 0>>

\* C35: a poll response whose status is completed or failed carries a result
\* that is not null, however the poll's two reads interleave with the worker
C35_TerminalPollHasResult ==
    (PollAnswered /\ poll.status \in Terminal) => poll.result # NoResult

\* the poll read a terminal status while the worker was at a later task of the
\* same id, and answered with a result
C35_Witness ==
    /\ PollAnswered
    /\ poll.status = "completed"
    /\ poll.result.tag \in {"success", "error"}
    /\ wpc # "idle"
    /\ wtask.id = poll.id

\* the worker thread runs whenever it can: every outside call returns, and the
\* thread is never left waiting once a task is on the queue
WorkerNext == WorkerGet \/ WorkerSingle \/ WorkerBatchWord \/ WorkerBatchDone \/ WorkerMark
SpecLedgerLive == SpecLedger /\ WF_vars(WorkerNext)

\* the worker has brought the task of handler h to a terminal status
BroughtToTerminal(h) == Finished(h) /\ task_status[htask[h].id] \in Terminal

\* the task of handler h waits on the queue
OnQueue(h) == Accepted(h) /\ htask[h] \in Range(task_queue)

\* the task of handler h ended in an error
EndedInError(h) == Finished(h) /\ task_results[htask[h].id].tag = "error"

\* C36: every task put on the queue is eventually taken by the worker and
\* brought to a terminal status, also when a task before it ended in an error
C36_WorkerGoesOn ==
    \A h \in Handlers : OnQueue(h) ~> BroughtToTerminal(h)

\* the first task ended in an error and the task submitted after it is done
C36_Witness ==
    /\ EndedInError(1)
    /\ htask[1].id # htask[2].id
    /\ BroughtToTerminal(2)

\* ====================================================================
\* Properties of the orchestrator: the counts of a summary
\* ====================================================================
\* how often the word w occurs in the list l
Occurrences(l, w) == Cardinality({i \in 1..Len(l) : l[i] = w})

\* C37: in an individual-mode summary every word of the list is in exactly one
\* of successful_uploads, failed_uploads and existing_notes, once, and the
\* three lengths sum to total_words_processed
C37_EveryWordCountedOnce ==
    (pc = "done" /\ summary.kind = "individual")
        => LET counted == summary.successful_uploads \o summary.failed_uploads
                            \o summary.existing_notes
           IN  /\ \A i \in 1..Len(words) : Occurrences(counted, words[i]) = 1
               /\ Len(counted) = summary.total_words_processed
               /\ summary.total_words_processed = Len(words)

\* a run of three words: one skipped, one uploaded, one whose upload answer
\* made the loop's except clause record it
C37_Witness ==
    /\ pc = "done" /\ summary.kind = "individual"
    /\ Len(summary.successful_uploads) = 1
    /\ Len(summary.existing_notes) = 1
    /\ Len(summary.failed_uploads) = 1
    /\ \E i \in 1..Len(log) :
          /\ IsUpload(log[i])
          /\ log[i][2] = summary.failed_uploads[1]
          /\ i < Len(log)
          /\ log[i + 1][1] # "sleep"

\* C38: in a batch-mode summary successful_uploads + failed_uploads equals
\* notes_generated
C38_UploadsSumToNotes ==
    (pc = "done" /\ summary.kind = "batch")
        => summary.successful_uploads + summary.failed_uploads = summary.notes_generated

\* ====================================================================
\* Star ratings: LuLuDictClient.update_word_star (src/src/luludict/client.py)
\* ====================================================================
\* a Python value passed as star: its type and, for numbers, its value
\* (True is the bool of value 1, 3.0 the float of value 3, "3" the str)
StarArgs ==
    {[t |-> "int", v |-> n] : n \in -1..6}
        \cup {[t |-> "bool", v |-> 1], [t |-> "float", v |-> 3],
              [t |-> "str", v |-> 3], [t |-> "NoneType", v |-> 0]}
IntStar(n) == [t |-> "int", v |-> n]
\* the words a caller passes to update_word_star
StarWords == {"", "alpha"}

\* endpoints = [f"{base_url}/studylist/word/star", f"{base_url}/studylist/word"]
Endpoints == <<"/studylist/word/star", "/studylist/word">>

\* what the service answers to a POST: status 2xx with a JSON object ("ok"),
\* with a body that is no JSON ("ok_raw") or with a JSON list ("ok_list"), an
\* HTTP error status, or no answer at all (a transport failure, "reqerr")
StarAnswers == {"ok", "ok_raw", "ok_list", "404", "405", "500", "reqerr"}

\* a check that lets every star through
AnyStar(star) == TRUE

\* isinstance(star, int) and 0 <= star <= 5; bool is a subclass of int
ValidStar(star) == star.t \in {"int", "bool"} /\ 0 <= star.v /\ star.v <= 5

\* a loop that goes on to the next endpoint after every failure
FallsBackAlways(ans) == ans \in {"404", "405", "500", "reqerr"}

\* if status_code in {404, 405}: ... continue
FallsBack(ans) == ans \in {"404", "405"}

StarError(msg) == [kind |-> "error", error |-> msg]
StarSuccess(k) == [kind |-> "success", endpoint |-> Endpoints[k]]
StarRaised == [kind |-> "raised"]

\* the loop over endpoints from endpoint k on: the requests made (endpoint,
\* word, star, answer) and what the call returns
RECURSIVE TryEndpoints(_, _, _, _, _)
TryEndpoints(word, star, answers, k, last_error) ==
    IF k > Len(Endpoints)
    THEN [requests |-> <<>>,
          result |-> StarError(IF last_error = "" THEN "Failed to update word star."
                               ELSE last_error)]
    ELSE LET ans == answers[k]
             req == <<"star", k, word, star, ans>>
         IN  IF ans \in {"ok", "ok_raw"}
             THEN [requests |-> <<req>>, result |-> StarSuccess(k)]
             ELSE IF ans = "ok_list"
             THEN \* data.get("message") on a list: AttributeError leaves the call
                  [requests |-> <<req>>, result |-> StarRaised]
             ELSE IF FallsBack(ans)
             THEN LET rest == TryEndpoints(word, star, answers, k + 1,
                                           "Endpoint returned status " \o ans)
                  IN  [requests |-> <<req>> \o rest.requests, result |-> rest.result]
             ELSE [requests |-> <<req>>, result |-> StarError(ans)]

\* update_word_star(word, star) when the service answers endpoint k with answers[k]
UpdateWordStar(word, star, answers) ==
    IF word = ""
    THEN [requests |-> <<>>, result |-> StarError("Word must be provided.")]
    ELSE IF ~ValidStar(star)
    THEN [requests |-> <<>>,
          result |-> StarError("Star rating must be an integer between 0 and 5.")]
    ELSE TryEndpoints(word, star, answers, 1, "")

\* a direct call of update_word_star
InitStar ==
    /\ LedgerInit
    /\ OrchestratorIdle
    /\ CallsIdle
    /\ cet4_words = {}
    /\ cet6_words = {}
    /\ dry_run = FALSE
    /\ rate_max_pages = <<>>
    /\ rpc = "call"
    /\ rpage = 0
    /\ entries = <<>>
    /\ tally = NoTally
    /\ star_calls = <<>>
    /\ rate_log = <<>>
    /\ inspected = 0
    /\ exit_code = <<>>
    /\ first_run = NoRun
    /\ \E word \in StarWords, star \in StarArgs :
          star_call = [kind |-> "call", word |-> word, star |-> star]

CallUpdateStar ==
    /\ rpc = "call"
    /\ \E answers \in [1..Len(Endpoints) -> StarAnswers] :
         LET out == UpdateWordStar(star_call.word, star_call.star, answers) IN
         /\ rate_log' = rate_log \o out.requests
         /\ star_call' = [kind |-> "returned", word |-> star_call.word,
                          star |-> star_call.star, result |-> out.result]
    /\ rpc' = "done"
    /\ UNCHANGED <<cet4_words, cet6_words, dry_run, rate_max_pages, rpage, entries, tally,
                   star_calls, inspected, exit_code, first_run>>
    /\ UNCHANGED <<ovars, lvars, cvars>>

NextStar == CallUpdateStar
SpecStar == InitStar /\ [][NextStar]_vars

\* the star-update requests made so far
IsStarRequest(e) == e[1] = "star"
StarRequests == SelectSeq(rate_log, IsStarRequest)

\* C32: update_word_star sends no request and returns an error when the word
\* is empty or the star is not an integer in 0..5, and every request it sends
\* carries a star in 0..5
C32_OnlyValidStarsSent ==
    /\ \A i \in 1..Len(StarRequests) :
          /\ StarRequests[i][4].t \in {"int", "bool"}
          /\ StarRequests[i][4].v \in 0..5
          /\ StarRequests[i][3] # ""
    /\ (star_call.kind = "returned"
          /\ (\/ star_call.word = ""
              \/ star_call.star.t \notin {"int", "bool"}
              \/ star_call.star.v \notin 0..5))
        => /\ rate_log = <<>>
           /\ star_call.result.kind = "error"

\* a call with star 6 has returned
C32_Witness ==
    /\ star_call.kind = "returned"
    /\ star_call.word = "alpha"
    /\ star_call.star = IntStar(6)
    /\ star_call.result.kind = "error"
    /\ rate_log = <<>>

\* C39: a call of update_word_star makes at most two requests, to the
\* endpoints in order; the second is made only after the first answered 404 or
\* 405; a success is the last request and the call returns it; any other
\* failure is the last request and the call returns an error
C39_EndpointFallback ==
    star_call.kind = "returned"
        => LET reqs == StarRequests IN
           /\ Len(reqs) <= 2
           /\ \A i \in 1..Len(reqs) :
                /\ reqs[i][2] = i
                /\ i > 1 => reqs[i - 1][5] \in {"404", "405"}
                /\ reqs[i][5] \in {"ok", "ok_raw"}
                      => /\ i = Len(reqs)
                         /\ star_call.result = StarSuccess(i)
                /\ reqs[i][5] \in {"500", "reqerr"}
                      => /\ i = Len(reqs)
                         /\ star_call.result.kind = "error"
           /\ (Len(reqs) = 2 /\ reqs[2][5] \in {"404", "405"})
                 => star_call.result.kind = "error"

\* the first endpoint answered 404 and the second saved the star
C39_Witness ==
    /\ star_call.kind = "returned"
    /\ Len(StarRequests) = 2
    /\ StarRequests[1][5] = "404"
    /\ StarRequests[2][5] = "ok"
    /\ star_call.result = StarSuccess(2)

\* ====================================================================
\* Star ratings: a run of rate_word.main (src/rate_word.py), from the loaded
\* word lists on; a second run may follow the first
\* ====================================================================
\* longest remote list of a rating run
MaxRated == 3
\* the words of the remote entries, in list order; the third entry has no word
RatedWords == <<"Alpha", "beta", "", "gamma">>
\* the star fields of remote entries: 5, 4, or null
RawStars == {IntStar(5), IntStar(4), [t |-> "NoneType", v |-> 0]}
RatedLists ==
    UNION {{[i \in 1..k |-> [word |-> RatedWords[i], star |-> st[i]]] : st \in [1..k -> RawStars]}
           : k \in 0..MaxRated}
\* the words a CET list may hold; load_word_list returns a non-empty set of
\* lowercase words
CetWords == {"alpha", "omega"}
CetLists == (SUBSET CetWords) \ {{}}
\* the answers of the star endpoints tried in a rating run
RateAnswers == {"ok", "404", "500"}

\* parse_star: int(value), 0 when int() raises TypeError or ValueError
ParseStar(value) == IF value.t = "NoneType" THEN 0 ELSE value.v

\* word.lower()
Lower(w) == IF w = "Alpha" THEN "alpha" ELSE w

\* a policy with a counter behind it: only the first call looks at the lists
DetermineHidden(word, current_star, cet4, cet6) ==
    IF star_calls # <<>> THEN <<current_star, "none">>
    ELSE IF Lower(word) \in cet4 THEN <<5, "cet4">>
    ELSE IF Lower(word) \in cet6 THEN <<4, "cet6">>
    ELSE IF current_star = 5 \/ current_star = 4 THEN <<3, "demote">>
    ELSE <<current_star, "none">>

\* a policy that takes one star from a word in neither list
DemoteByOne(word, current_star, cet4, cet6) ==
    IF Lower(word) \in cet4 THEN <<5, "cet4">>
    ELSE IF Lower(word) \in cet6 THEN <<4, "cet6">>
    ELSE IF current_star = 5 \/ current_star = 4 THEN <<current_star - 1, "demote">>
    ELSE <<current_star, "none">>

\* determine_target_star(word, current_star, cet4_words, cet6_words)
DetermineTargetStar(word, current_star, cet4, cet6) ==
    IF Lower(word) \in cet4 THEN <<5, "cet4">>
    ELSE IF Lower(word) \in cet6 THEN <<4, "cet6">>
    ELSE IF current_star = 5 \/ current_star = 4 THEN <<3, "demote">>
    ELSE <<current_star, "none">>

\* a run that sends its updates in dry-run mode too
SkipsNothing(flag) == FALSE

\* if args.dry_run: ... continue
SkipsUpdate(flag) == flag

\* updates_applied += 1 and the counter of the reason
CountUpdate(t, reason) ==
    [t EXCEPT !.updates_applied = @ + 1,
              !.cet4_promotions = IF reason = "cet4" THEN @ + 1 ELSE @,
              !.cet6_assignments = IF reason = "cet6" THEN @ + 1 ELSE @,
              !.demoted_to_four = IF reason \notin {"cet4", "cet6"} THEN @ + 1 ELSE @]

\* the store after it saved star for word
SaveStar(rem, word, star) ==
    [i \in 1..Len(rem) |-> IF rem[i].word = word THEN [rem[i] EXCEPT !.star = star]
                           ELSE rem[i]]

\* iter_word_entries: if max_pages is not None and page > max_pages: break
RatePageLimitHit == rate_max_pages # <<>> /\ rpage > rate_max_pages[1]

InitRate ==
    /\ InitCommon
    /\ LedgerInit
    /\ CallsIdle
    /\ runKind = "rate"
    /\ remote \in RatedLists
    /\ max_words = 0
    /\ words = <<>>
    /\ pc = "done"
    /\ cet4_words \in CetLists
    /\ cet6_words \in CetLists
    /\ dry_run \in BOOLEAN
    /\ rate_max_pages \in {<<>>, <<0>>}
    /\ rpc = "fetch"
    /\ rpage = 0
    /\ entries = <<>>
    /\ tally = NoTally
    /\ star_calls = <<>>
    /\ rate_log = <<>>
    /\ inspected = 0
    /\ exit_code = <<>>
    /\ first_run = NoRun
    /\ star_call = NoStarCall

\* iter_word_entries asks for a page: it yields the entries of the page, or
\* ends when the answer holds no data
RateFetch ==
    /\ rpc = "fetch"
    /\ ~RatePageLimitHit
    /\ \E ans \in {"data", "error"} :
         LET data == IF ans = "data" THEN PageData(rpage) ELSE <<>>
             got  == IF ans = "error" THEN "error"
                     ELSE IF data = <<>> THEN "empty" ELSE "data"
         IN  /\ rate_log' = Append(rate_log, <<"fetch", rpage, got>>)
             /\ entries' = data
             /\ rpc' = IF data = <<>> THEN "summary" ELSE "entry"
    /\ UNCHANGED <<cet4_words, cet6_words, dry_run, rate_max_pages, rpage, tally, star_calls,
                   inspected, exit_code, first_run, star_call>>
    /\ UNCHANGED <<ovars, lvars, cvars>>

\* iter_word_entries stops at the page limit
RatePageLimit ==
    /\ rpc = "fetch"
    /\ RatePageLimitHit
    /\ rpc' = "summary"
    /\ UNCHANGED <<cet4_words, cet6_words, dry_run, rate_max_pages, rpage, entries, tally,
                   star_calls, rate_log, inspected, exit_code, first_run, star_call>>
    /\ UNCHANGED <<ovars, lvars, cvars>>

\* one pass of the loop of main over a yielded entry; after the last entry of a
\* page the generator goes on: page += 1 and the delay between requests
RateEntry ==
    /\ rpc = "entry"
    /\ entries # <<>>
    /\ LET entry == Head(entries)
           word == entry.word
           current_star == ParseStar(entry.star)
           out == DetermineTargetStar(word, current_star, cet4_words, cet6_words)
           target_star == out[1]
           reason == out[2]
           counted == [tally EXCEPT !.total_words = @ + 1]
           last == Len(entries) = 1
           resume(l) == IF last THEN Append(l, <<"sleep", "request">>) ELSE l
       IN  /\ entries' = Tail(entries)
           /\ inspected' = inspected + 1
           /\ rpage' = IF last THEN rpage + 1 ELSE rpage
           /\ rpc' = IF last THEN "fetch" ELSE "entry"
           /\ IF word = ""
              THEN /\ rate_log' = resume(rate_log)
                   /\ UNCHANGED <<tally, star_calls, remote>>
              ELSE /\ star_calls' = Append(star_calls,
                                           [word |-> word, current_star |-> current_star,
                                            cet4 |-> cet4_words, cet6 |-> cet6_words,
                                            out |-> out])
                   /\ IF target_star = current_star
                      THEN /\ tally' = [counted EXCEPT !.skipped = @ + 1]
                           /\ rate_log' = resume(rate_log)
                           /\ UNCHANGED remote
                      ELSE IF SkipsUpdate(dry_run)
                      THEN /\ tally' = CountUpdate(counted, reason)
                           /\ rate_log' = resume(rate_log)
                           /\ UNCHANGED remote
                      ELSE \E answers \in [1..Len(Endpoints) -> RateAnswers] :
                             LET response == UpdateWordStar(word, IntStar(target_star), answers)
                                 failed == response.result.kind = "error"
                             IN  /\ tally' = IF failed
                                             THEN [counted EXCEPT !.failures = @ + 1]
                                             ELSE CountUpdate(counted, reason)
                                 /\ remote' = IF failed THEN remote
                                              ELSE SaveStar(remote, word, IntStar(target_star))
                                 /\ rate_log' = resume(Append(rate_log \o response.requests,
                                                              <<"sleep", "update">>))
    /\ UNCHANGED <<cet4_words, cet6_words, dry_run, rate_max_pages, exit_code, first_run,
                   star_call>>
    /\ UNCHANGED <<runKind, max_words, pc, page, words_data, words, idx, word_notes,
                   upload_results, successful_uploads, failed_uploads, existing_notes,
                   summary, outcome, log>>
    /\ UNCHANGED <<lvars, cvars>>

\* the summary of main: return 0 if failures == 0 else 2
RateSummary ==
    /\ rpc = "summary"
    /\ rpc' = "exit"
    /\ exit_code' = <<IF tally.failures = 0 THEN 0 ELSE 2>>
    /\ UNCHANGED <<cet4_words, cet6_words, dry_run, rate_max_pages, rpage, entries, tally,
                   star_calls, rate_log, inspected, first_run, star_call>>
    /\ UNCHANGED <<ovars, lvars, cvars>>

\* rate_word is run again with the same lists against the same store
RateAgain ==
    /\ rpc = "exit"
    /\ first_run = NoRun
    /\ first_run' = [kind |-> "ran", dry_run |-> dry_run, tally |-> tally,
                     inspected |-> inspected, exit_code |-> exit_code]
    /\ dry_run' \in BOOLEAN
    /\ rpc' = "fetch"
    /\ rpage' = 0
    /\ entries' = <<>>
    /\ tally' = NoTally
    /\ rate_log' = <<>>
    /\ inspected' = 0
    /\ exit_code' = <<>>
    /\ UNCHANGED <<cet4_words, cet6_words, rate_max_pages, star_calls, star_call>>
    /\ UNCHANGED <<ovars, lvars, cvars>>

NextRate == RateFetch \/ RatePageLimit \/ RateEntry \/ RateSummary \/ RateAgain
SpecRate == InitRate /\ [][NextRate]_vars

\* ====================================================================
\* Properties of the star ratings
\* ====================================================================
\* two recorded calls of determine_target_star got the same arguments
SameInputs(a, b) ==
    /\ a.word = b.word
    /\ a.current_star = b.current_star
    /\ a.cet4 = b.cet4
    /\ a.cet6 = b.cet6

C33_StarPolicy ==
    \A i \in 1..Len(star_calls) :
        LET c == star_calls[i]
            lowered == Lower(c.word)
        IN  c.out[1] = IF lowered \in c.cet4 THEN 5
                       ELSE IF lowered \in c.cet6 THEN 4
                       ELSE IF c.current_star = 5 THEN 4
                       ELSE c.current_star

\* C34: while a run is in dry-run mode no star-update request is sent and the
\* stars of the store stay as they are
C34_DryRunSendsNothing ==
    [][/\ dry_run => remote' = remote
       /\ dry_run' => StarRequests' = <<>>]_vars

\* a dry run has ended that counted an update it did not send
C34_Witness ==
    /\ rpc = "exit"
    /\ dry_run
    /\ tally.updates_applied >= 1
    /\ StarRequests = <<>>

\* the earlier run sent its updates, none failed, and this run has seen no entry
\* the earlier one did not see
AfterCleanRun ==
    /\ first_run.kind = "ran"
    /\ ~first_run.dry_run
    /\ first_run.tally.failures = 0
    /\ inspected <= first_run.inspected

\* C40: rating a word again with the star the policy gave it returns that
\* star, so a run that follows a run whose updates all succeeded applies no
\* update and sends no request
C40_PolicyIdempotent ==
    /\ \A i, j \in 1..Len(star_calls) :
          (/\ star_calls[j].word = star_calls[i].word
           /\ star_calls[j].cet4 = star_calls[i].cet4
           /\ star_calls[j].cet6 = star_calls[i].cet6
           /\ star_calls[j].current_star = star_calls[i].out[1])
              => star_calls[j].out[1] = star_calls[j].current_star
    /\ AfterCleanRun => (tally.updates_applied = 0 /\ StarRequests = <<>>)

\* a second run has ended after a run that applied two updates
C40_Witness ==
    /\ rpc = "exit"
    /\ AfterCleanRun
    /\ first_run.tally.updates_applied = 2
    /\ inspected = first_run.inspected
    /\ tally.skipped = 2

====
